---- MODULE Spec2Model ----
(***************************************************************************)
(* Render layers, render groups and camera views of                        *)
(* crates/bevy_render/src/view/visibility/render_groups.rs.                *)
(*                                                                         *)
(* A u64 word of the bitmask is modelled as the set of its set bit         *)
(* positions, a subset of 0..63: `|` is union, `&` is intersection,        *)
(* `& !bit` is set difference, `== 0` is emptiness.  The SmallVec of       *)
(* words is a sequence of such sets (index 1 is buffer index 0).           *)
(***************************************************************************)
EXTENDS Integers, Sequences, FiniteSets

\* ---------------------------------------------------------------- bounds
\* Longest slice handed to from_layers.
MaxLen == 2
\* Number of camera entities.
NumEntities == 2
\* Number of items one iteration is followed for.
MaxItems == 5

\* ------------------------------------------------------ program constants
\* Width of one word of the bitmask (u64).
WordBits == 64
\* Option::None for the camera affiliation; Some(e) is the entity e >= 1.
None == 0
\* DEFAULT_RENDER_LAYER
DEFAULT_RENDER_LAYER == 0

Entity == 1..NumEntities
OptionEntity == Entity \cup {None}

\* Layers handed to the operations: the two lowest bits and the highest bit
\* of the first word, and the lowest bit of the second word.
LayerPool == {0, 1, WordBits - 1, WordBits}
\* Every layer a buffer built from the pool can hold.
AllLayers == 0..(2 * WordBits - 1)

Min(x, y) == IF x <= y THEN x ELSE y
Max(x, y) == IF x >= y THEN x ELSE y

\* Slices of at most n layers of the pool.
RECURSIVE SlicesUpTo(_)
SlicesUpTo(n) ==
    IF n = 0 THEN {<<>>}
    ELSE LET shorter == SlicesUpTo(n - 1)
         IN shorter \cup {Append(s, l) : s \in {t \in shorter : Len(t) = n - 1}, l \in LayerPool}

\* ------------------------------------------------------- RenderXXLayersXX

\* RenderXXLayersXX::empty
RenderXXLayersXX_empty == <<>>

\* layer_info whose bit position is taken modulo one less than the word width
layer_info_narrow(layer) ==
    [buffer_index |-> layer \div WordBits, bit |-> {layer % (WordBits - 1)}]

\* RenderXXLayersXX::layer_info: (buffer_index, bit)
layer_info(layer) ==
    [buffer_index |-> layer \div WordBits, bit |-> {layer % WordBits}]

\* RenderXXLayersXX::extend_buffer: resize(max(len, other_len), 0)
extend_buffer(layers, other_len) ==
    LET new_size == Max(Len(layers), other_len)
    IN layers \o [i \in 1..(new_size - Len(layers)) |-> {}]

\* add that grows the buffer one word past the layer's word
RenderXXLayersXX_add_over_extend(layers, layer) ==
    LET info == layer_info(layer)
        ext == extend_buffer(layers, info.buffer_index + 2)
    IN [ext EXCEPT ![info.buffer_index + 1] = @ \cup info.bit]

\* RenderXXLayersXX::add
RenderXXLayersXX_add(layers, layer) ==
    LET info == layer_info(layer)
        ext == extend_buffer(layers, info.buffer_index + 1)
    IN [ext EXCEPT ![info.buffer_index + 1] = @ \cup info.bit]

\* remove that pops the trailing zero words it leaves
RenderXXLayersXX_remove_shrink(layers, layer) ==
    LET info == layer_info(layer)
        cleared == IF info.buffer_index >= Len(layers)
                   THEN layers
                   ELSE [layers EXCEPT ![info.buffer_index + 1] = @ \ info.bit]
        keep == Max(0, CHOOSE n \in 0..Len(cleared) :
                        /\ n = 0 \/ cleared[n] # {}
                        /\ \A i \in (n + 1)..Len(cleared) : cleared[i] = {})
    IN SubSeq(cleared, 1, keep)

\* remove that flips the layer's bit instead of clearing it
RenderXXLayersXX_remove_toggle(layers, layer) ==
    LET info == layer_info(layer)
    IN IF info.buffer_index >= Len(layers)
       THEN layers
       ELSE [layers EXCEPT ![info.buffer_index + 1] =
                                (@ \ info.bit) \cup (info.bit \ @)]

\* RenderXXLayersXX::remove
RenderXXLayersXX_remove(layers, layer) ==
    LET info == layer_info(layer)
    IN IF info.buffer_index >= Len(layers)
       THEN layers
       ELSE [layers EXCEPT ![info.buffer_index + 1] = @ \ info.bit]

\* RenderXXLayersXX::clear
RenderXXLayersXX_clear(layers) == <<>>

\* RenderXXLayersXX::set_from: clear, then extend_from_slice(other)
RenderXXLayersXX_set_from(layers, other) ==
    RenderXXLayersXX_clear(layers) \o other

\* merge without the extend_buffer call: the zip stops at self's length
RenderXXLayersXX_merge_no_extend(layers, other) ==
    [i \in 1..Len(layers) |->
        IF i <= Len(other) THEN layers[i] \cup other[i] ELSE layers[i]]

\* RenderXXLayersXX::merge: extend to other's length, OR the zipped words
RenderXXLayersXX_merge(layers, other) ==
    LET ext == extend_buffer(layers, Len(other))
    IN [i \in 1..Len(ext) |->
            IF i <= Len(other) THEN ext[i] \cup other[i] ELSE ext[i]]

\* RenderXXLayersXX::contains
RenderXXLayersXX_contains(layers, layer) ==
    LET info == layer_info(layer)
    IN IF info.buffer_index >= Len(layers)
       THEN FALSE
       ELSE (layers[info.buffer_index + 1] \cap info.bit) # {}

\* intersects that walks self's words and lets a word other lacks match
RenderXXLayersXX_intersects_self_len(layers, other) ==
    \E i \in 1..Len(layers) :
        /\ layers[i] # {}
        /\ i > Len(other) \/ (layers[i] \cap other[i]) # {}

\* intersects that looks at the first word pair only
RenderXXLayersXX_intersects_first_word(layers, other) ==
    \E i \in 1..Min(1, Min(Len(layers), Len(other))) : (layers[i] \cap other[i]) # {}

\* RenderXXLayersXX::intersects: zip stops at the shorter buffer
RenderXXLayersXX_intersects(layers, other) ==
    \E i \in 1..Min(Len(layers), Len(other)) : (layers[i] \cap other[i]) # {}

\* RenderXXLayersXX::bits
bits(layers) == layers

\* derive(PartialEq) on the SmallVec: slice equality, length included
RenderXXLayersXX_eq(layers, other) ==
    /\ Len(layers) = Len(other)
    /\ \A i \in 1..Len(layers) : layers[i] = other[i]

\* impl From<T: Into<RenderLayer>> for RenderXXLayersXX
RenderXXLayersXX_from(layer) ==
    RenderXXLayersXX_add(RenderXXLayersXX_empty, layer)

\* impl FromIterator: fold of add over the items, from empty
RECURSIVE from_iter(_)
from_iter(items) ==
    IF Len(items) = 0
    THEN RenderXXLayersXX_empty
    ELSE RenderXXLayersXX_add(from_iter(SubSeq(items, 1, Len(items) - 1)),
                              items[Len(items)])

\* RenderXXLayersXX::from_layers
from_layers(slice) == from_iter(slice)

\* the Default a derive would give: no layer
RenderXXLayersXX_default_derived == RenderXXLayersXX_empty

\* impl Default for RenderXXLayersXX
RenderXXLayersXX_default == RenderXXLayersXX_from(DEFAULT_RENDER_LAYER)

\* u64::trailing_zeros
trailing_zeros(buffer) ==
    IF buffer = {}
    THEN WordBits
    ELSE CHOOSE b \in buffer : \A c \in buffer : b <= c

\* buffer >> n for a shift amount below the word width
shr(buffer, n) == {b - n : b \in {c \in buffer : c >= n}}

\* One call of the closure of RenderXXLayersXX::iter_layers on (buffer, layer).
\* `buffer >>= next` with next = 64 overflows the shift: a build with overflow
\* checks panics, a build without them shifts by next mod 64.
iter_layers_next(buffer, layer, checks) ==
    IF buffer = {}
    THEN [kind |-> "None", buffer |-> buffer, layer |-> layer, item |-> 0]
    ELSE LET next == trailing_zeros(buffer) + 1
         IN IF next >= WordBits /\ checks
            THEN [kind |-> "panic", buffer |-> buffer, layer |-> layer, item |-> 0]
            ELSE [kind   |-> "Some",
                  buffer |-> shr(buffer, next % WordBits),
                  layer  |-> layer + next,
                  item   |-> layer + next - 1]

\* RenderXXLayersXX::iter: the state of layers.iter().copied().map(iter_layers).flatten()
\* before its first item: no word taken yet, no inner iterator.
iter(layers) == [idx |-> 0, inner |-> FALSE, buffer |-> {}, layer |-> 0]

\* Flatten::next over iter(layers): drain the inner iter_layers iterator, and
\* when it is exhausted take the next word and start a new one.
RECURSIVE flatten_next(_, _, _)
flatten_next(layers, st, checks) ==
    IF st.inner
    THEN LET r == iter_layers_next(st.buffer, st.layer, checks)
         IN IF r.kind = "None"
            THEN flatten_next(layers, [st EXCEPT !.inner = FALSE], checks)
            ELSE [kind |-> r.kind, item |-> r.item,
                  st |-> [st EXCEPT !.buffer = r.buffer, !.layer = r.layer]]
    ELSE IF st.idx < Len(layers)
         THEN flatten_next(layers,
                           [idx |-> st.idx + 1, inner |-> TRUE,
                            buffer |-> layers[st.idx + 1], layer |-> 0],
                           checks)
         ELSE [kind |-> "None", item |-> 0, st |-> st]

\* ------------------------------------------------------------ RenderGroups

\* RenderGroups::empty
RenderGroups_empty == [layers |-> RenderXXLayersXX_empty, camera |-> None]

\* RenderGroups::new_with_camera
new_with_camera(camera) == [layers |-> RenderXXLayersXX_empty, camera |-> camera]

\* RenderGroups::default_with_camera
default_with_camera(camera) == [layers |-> RenderXXLayersXX_default, camera |-> camera]

\* impl From<RenderLayer> for RenderGroups
RenderGroups_from_layer(layer) == [layers |-> RenderXXLayersXX_from(layer), camera |-> None]

\* impl From<RenderXXLayersXX> for RenderGroups
RenderGroups_from(layers) == [layers |-> layers, camera |-> None]

\* impl Default for RenderGroups
RenderGroups_default == RenderGroups_from_layer(DEFAULT_RENDER_LAYER)

\* RenderGroups::add
RenderGroups_add(g, layer) == [g EXCEPT !.layers = RenderXXLayersXX_add(@, layer)]

\* RenderGroups::remove
RenderGroups_remove(g, layer) == [g EXCEPT !.layers = RenderXXLayersXX_remove(@, layer)]

\* clear that empties the layers and keeps the camera
RenderGroups_clear_layers_only(g) ==
    [layers |-> RenderXXLayersXX_clear(g.layers), camera |-> g.camera]

\* RenderGroups::clear
RenderGroups_clear(g) == [layers |-> RenderXXLayersXX_clear(g.layers), camera |-> None]

\* Option::or
Option_or(a, b) == IF a # None THEN a ELSE b

\* merge whose camera resolution lets `other` win
RenderGroups_merge_other_wins(g, o) ==
    [layers |-> RenderXXLayersXX_merge(g.layers, o.layers),
     camera |-> Option_or(o.camera, g.camera)]

\* RenderGroups::merge
RenderGroups_merge(g, o) ==
    [layers |-> RenderXXLayersXX_merge(g.layers, o.layers),
     camera |-> Option_or(g.camera, o.camera)]

\* RenderGroups::set_from
RenderGroups_set_from(g, o) ==
    [layers |-> RenderXXLayersXX_set_from(g.layers, o.layers), camera |-> o.camera]

\* RenderGroups::set_camera: the groups after the call (the call returns g.camera)
set_camera(g, camera) == [g EXCEPT !.camera = camera]

\* RenderGroups::remove_camera: the groups after the call (the call returns g.camera)
remove_camera(g) == [g EXCEPT !.camera = None]

\* RenderGroups::contains_layer
RenderGroups_contains_layer(g, layer) == RenderXXLayersXX_contains(g.layers, layer)

\* intersects that compares the two Options, so that None matches None
RenderGroups_intersects_none_matches(g, o) ==
    IF g.camera = o.camera
    THEN TRUE
    ELSE RenderXXLayersXX_intersects(g.layers, o.layers)

\* RenderGroups::intersects
RenderGroups_intersects(g, o) ==
    IF g.camera # None /\ o.camera # None /\ g.camera = o.camera
    THEN TRUE
    ELSE RenderXXLayersXX_intersects(g.layers, o.layers)

\* intersects_extracted that takes an absent argument for an empty RenderGroups
intersects_extracted_absent_empty(g, extracted) ==
    LET render_groups == IF Len(extracted) = 0 THEN RenderGroups_empty ELSE extracted[1]
    IN RenderGroups_intersects(g, render_groups)

\* RenderGroups::intersects_extracted; `extracted` is << >> for None and <<o>> for Some(o)
intersects_extracted(g, extracted) ==
    LET default_render_groups == RenderGroups_default
        render_groups == IF Len(extracted) = 0 THEN default_render_groups ELSE extracted[1]
    IN RenderGroups_intersects(g, render_groups)

\* derive(PartialEq) on RenderGroups
RenderGroups_eq(g, o) ==
    RenderXXLayersXX_eq(g.layers, o.layers) /\ g.camera = o.camera

\* -------------------------------------------------------------- CameraView

\* CameraView::empty
CameraView_empty == [layers |-> RenderXXLayersXX_empty]

\* impl From<RenderLayer> for CameraView
CameraView_from(layer) == [layers |-> RenderXXLayersXX_from(layer)]

\* impl Default for CameraView
CameraView_default == CameraView_from(DEFAULT_RENDER_LAYER)

\* CameraView::add
CameraView_add(v, layer) == [v EXCEPT !.layers = RenderXXLayersXX_add(@, layer)]

\* CameraView::remove
CameraView_remove(v, layer) == [v EXCEPT !.layers = RenderXXLayersXX_remove(@, layer)]

\* CameraView::clear
CameraView_clear(v) == [v EXCEPT !.layers = RenderXXLayersXX_clear(@)]

\* CameraView::contains_layer
CameraView_contains_layer(v, layer) == RenderXXLayersXX_contains(v.layers, layer)

\* entity_is_visible without the affiliation test
entity_is_visible_layers_only(v, camera, g) ==
    RenderXXLayersXX_intersects(v.layers, g.layers)

\* CameraView::entity_is_visible
entity_is_visible(v, camera, g) ==
    IF camera = g.camera
    THEN TRUE
    ELSE RenderXXLayersXX_intersects(v.layers, g.layers)

\* get_groups that forgets to set the camera
get_groups_no_camera(v, camera) == RenderGroups_from(v.layers)

\* get_groups that builds the default layers instead of cloning the view's
get_groups_default_layers(v, camera) == default_with_camera(camera)

\* CameraView::get_groups
get_groups(v, camera) == set_camera(RenderGroups_from(v.layers), camera)

\* ------------------------------------------------------------------- state
\* groups : the RenderGroups the calls act on (`self`)
\* other  : a second RenderGroups, the argument of merge / set_from / intersects
\* view   : a CameraView
\* it     : the iterator of groups.iter_layers() or the running num_layers()
\* last   : the last call made, its arguments and what it returned
VARIABLES groups, other, view, it, last

vars == <<groups, other, view, it, last>>

IterIdle ==
    [pc |-> "idle", call |-> "none", st |-> iter(<<>>), out |-> <<>>, count |-> 0]

Call(op, arg, ret) == [op |-> op, arg |-> arg, ret |-> ret]

\* Every way to construct a RenderGroups.
NewRenderGroups ==
    {RenderGroups_empty, RenderGroups_default}
        \cup {new_with_camera(c) : c \in Entity}
        \cup {default_with_camera(c) : c \in Entity}
        \cup {RenderGroups_from_layer(l) : l \in LayerPool}

Init ==
    /\ groups = RenderGroups_default
    /\ other = RenderGroups_default
    /\ view = CameraView_default
    /\ it = IterIdle
    /\ last = Call("new", <<>>, FALSE)

\* A mutating call takes the exclusive borrow: no iterator is alive, and no
\* panic has ended the run.
CanMutate == it.pc = "idle"

MutGroups(g, op, arg) ==
    /\ groups' = g
    /\ last' = Call(op, arg, FALSE)
    /\ UNCHANGED <<other, view, it>>

MutOther(o, op, arg) ==
    /\ other' = o
    /\ last' = Call(op, arg, FALSE)
    /\ UNCHANGED <<groups, view, it>>

\* --------------------------------------------------- calls on `groups`
GroupsNew ==
    /\ CanMutate
    /\ \E g \in NewRenderGroups : MutGroups(g, "RenderGroups::new", <<>>)

GroupsAdd ==
    /\ CanMutate
    /\ \E l \in LayerPool : MutGroups(RenderGroups_add(groups, l), "RenderGroups::add", <<l>>)

GroupsRemove ==
    /\ CanMutate
    /\ \E l \in LayerPool : MutGroups(RenderGroups_remove(groups, l), "RenderGroups::remove", <<l>>)

GroupsClear ==
    /\ CanMutate
    /\ MutGroups(RenderGroups_clear(groups), "RenderGroups::clear", <<>>)

GroupsMerge ==
    /\ CanMutate
    /\ MutGroups(RenderGroups_merge(groups, other), "RenderGroups::merge", <<>>)

GroupsSetFrom ==
    /\ CanMutate
    /\ MutGroups(RenderGroups_set_from(groups, other), "RenderGroups::set_from", <<>>)

GroupsSetCamera ==
    /\ CanMutate
    /\ \E c \in Entity : MutGroups(set_camera(groups, c), "set_camera", <<c>>)

GroupsRemoveCamera ==
    /\ CanMutate
    /\ MutGroups(remove_camera(groups), "remove_camera", <<>>)

\* ---------------------------------------------------- calls on `other`
OtherNew ==
    /\ CanMutate
    /\ \E o \in NewRenderGroups : MutOther(o, "other::new", <<>>)

OtherAdd ==
    /\ CanMutate
    /\ \E l \in LayerPool : MutOther(RenderGroups_add(other, l), "other::add", <<>>)

OtherRemove ==
    /\ CanMutate
    /\ \E l \in LayerPool : MutOther(RenderGroups_remove(other, l), "other::remove", <<>>)

\* ----------------------------------------------------------- iteration
\* groups.iter_layers() collected, or groups.layers.num_layers() = iter().count()
IterStart ==
    /\ it.pc = "idle"
    /\ \E call \in {"iter", "num_layers"} :
        it' = [pc |-> "running", call |-> call, st |-> iter(groups.layers),
               out |-> <<>>, count |-> 0]
    /\ UNCHANGED <<groups, other, view, last>>

\* One call of next() on the iterator by collect() / count().  Whether the
\* build checks overflow is not fixed by the source: both builds are followed.
IterNext ==
    /\ it.pc = "running"
    /\ Len(it.out) < MaxItems /\ it.count < MaxItems
    /\ \E overflow_checks \in BOOLEAN :
        LET r == flatten_next(groups.layers, it.st, overflow_checks)
        IN it' = CASE r.kind = "panic" -> [it EXCEPT !.pc = "panicked"]
                   [] r.kind = "None"  -> [it EXCEPT !.pc = "done", !.st = r.st]
                   [] r.kind = "Some"  ->
                         IF it.call = "iter"
                         THEN [it EXCEPT !.st = r.st, !.out = Append(@, r.item)]
                         ELSE [it EXCEPT !.st = r.st, !.count = @ + 1]
    /\ UNCHANGED <<groups, other, view, last>>

\* collect() / count() has returned and the iterator is dropped.
IterDrop ==
    /\ it.pc = "done"
    /\ it' = IterIdle
    /\ UNCHANGED <<groups, other, view, last>>

Next ==
    \/ GroupsNew \/ GroupsAdd \/ GroupsRemove \/ GroupsClear
    \/ GroupsMerge \/ GroupsSetFrom \/ GroupsSetCamera \/ GroupsRemoveCamera
    \/ OtherNew \/ OtherAdd \/ OtherRemove
    \/ IterStart \/ IterNext \/ IterDrop

\* The mutating calls and the iteration, from default-constructed values.
Spec == Init /\ [][Next]_vars

\* ------------------------------------------------------- from_layers
\* groups = RenderGroups::from(RenderXXLayersXX::from_layers(slice)) for a slice
\* of the pool, logged with the slice.
InitFromLayers ==
    /\ \E slice \in SlicesUpTo(MaxLen) :
        /\ groups = RenderGroups_from(from_layers(slice))
        /\ last = Call("from_layers", slice, FALSE)
    /\ other = RenderGroups_default
    /\ view = CameraView_default
    /\ it = IterIdle

NextFromLayers == IterStart \/ IterNext \/ IterDrop

\* from_layers(slice), then iter().collect() or num_layers() on the result.
SpecFromLayers == InitFromLayers /\ [][NextFromLayers]_vars

\* ------------------------------------------------- the pure queries
\* Buffers the calls above build: from_layers of a slice, and one remove on it.
InputLayers ==
    LET built == {from_layers(slice) : slice \in SlicesUpTo(MaxLen)}
    IN built \cup {RenderXXLayersXX_remove(b, l) : b \in built, l \in LayerPool}

InputGroups ==
    {set_camera(RenderGroups_from(ls), c) : ls \in InputLayers, c \in OptionEntity}

InputViews == {[layers |-> ls] : ls \in InputLayers}

\* A query reads at most two of the three values; the third stays at its default.
InitQuery ==
    /\ groups \in InputGroups
    /\ \/ other \in InputGroups /\ view = CameraView_default
       \/ other = RenderGroups_default /\ view \in InputViews
    /\ it = IterIdle
    /\ last = Call("none", <<>>, FALSE)

\* One query is made on the values drawn.
CanQuery == last.op = "none"

Query(op, arg, ret) ==
    /\ last' = Call(op, arg, ret)
    /\ UNCHANGED <<groups, other, view, it>>

ContainsLayer ==
    /\ CanQuery
    /\ \E l \in LayerPool :
            Query("contains_layer", <<l>>, RenderGroups_contains_layer(groups, l))

LayersIntersects ==
    /\ CanQuery
    /\ Query("RenderXXLayersXX::intersects", <<>>,
              RenderXXLayersXX_intersects(groups.layers, other.layers))

Intersects ==
    /\ CanQuery
    /\ Query("RenderGroups::intersects", <<>>, RenderGroups_intersects(groups, other))

IntersectsExtracted ==
    /\ CanQuery
    /\ \E extracted \in {<<>>, <<other>>} :
            Query("intersects_extracted", <<Len(extracted)>>,
                  intersects_extracted(groups, extracted))

EntityIsVisible ==
    /\ CanQuery
    /\ \E c \in Entity :
            Query("entity_is_visible", <<c>>, entity_is_visible(view, c, groups))

GetGroups ==
    /\ CanQuery
    /\ \E c \in Entity : Query("get_groups", <<c>>, get_groups(view, c))

Eq ==
    /\ CanQuery
    /\ Query("eq", <<>>, RenderGroups_eq(groups, other))

NextQuery ==
    \/ ContainsLayer \/ LayersIntersects \/ Intersects \/ IntersectsExtracted
    \/ EntityIsVisible \/ GetGroups \/ Eq

\* One query on values the mutating calls can build.
SpecQuery == InitQuery /\ [][NextQuery]_vars

\* ------------------------------------------------ a view and its get_groups
\* The CameraView is mutated, `other` takes the result of get_groups and is
\* mutated in turn.
MutView(v, op, arg) ==
    /\ view' = v
    /\ last' = Call(op, arg, FALSE)
    /\ UNCHANGED <<groups, other, it>>

ViewAdd ==
    /\ CanMutate
    /\ \E l \in LayerPool : MutView(CameraView_add(view, l), "CameraView::add", <<l>>)

ViewRemove ==
    /\ CanMutate
    /\ \E l \in LayerPool : MutView(CameraView_remove(view, l), "CameraView::remove", <<l>>)

ViewClear ==
    /\ CanMutate
    /\ MutView(CameraView_clear(view), "CameraView::clear", <<>>)

\* other = view.get_groups(camera)
OtherGetGroups ==
    /\ CanMutate
    /\ \E c \in Entity : MutOther(get_groups(view, c), "CameraView::get_groups", <<c>>)

NextView ==
    \/ ViewAdd \/ ViewRemove \/ ViewClear
    \/ OtherGetGroups \/ OtherAdd \/ OtherRemove

SpecView == Init /\ [][NextView]_vars

\* --------------------------------------------- from_layers, then merges
\* groups is built by from_layers and other is an input that may carry the
\* trailing zero words of a remove; groups.merge(&other) is then called.
InitFromMerge ==
    /\ \E slice \in SlicesUpTo(MaxLen) :
            /\ groups = RenderGroups_from(from_layers(slice))
            /\ last = Call("from_layers", slice, FALSE)
    /\ other \in InputGroups
    /\ view = CameraView_default
    /\ it = IterIdle

NextFromMerge == GroupsMerge

SpecFromMerge == InitFromMerge /\ [][NextFromMerge]_vars

\* ------------------------------------------------------------ properties
\* The distinct elements of a slice, ascending.
RECURSIVE Ascending(_)
Ascending(S) ==
    IF S = {} THEN <<>>
    ELSE LET m == CHOOSE x \in S : \A y \in S : x <= y
         IN <<m>> \o Ascending(S \ {m})

Distinct(slice) == {slice[i] : i \in 1..Len(slice)}

IsPrefix(s, t) == Len(s) <= Len(t) /\ \A i \in 1..Len(s) : s[i] = t[i]

\* Number of set bits of a buffer.
RECURSIVE SetBits(_)
SetBits(layers) ==
    IF Len(layers) = 0 THEN 0
    ELSE Cardinality(layers[1]) + SetBits(Tail(layers))

\* The layers a buffer contains.
Contained(layers) == {x \in AllLayers : RenderXXLayersXX_contains(layers, x)}

\* The step is the call `op`: made with no iterator alive, and logged.
IsCall(op) == it.pc = "idle" /\ it' = it /\ last'.op = op

\* C1: collecting iter() of from_layers(L) yields exactly the distinct elements
\* of L in ascending order: the iteration does not fail, what it has yielded so
\* far is a prefix of that sequence, and once finished it is that sequence.
C1_RoundTrip ==
    (last.op = "from_layers" /\ it.call = "iter") =>
        /\ it.pc # "panicked"
        /\ IsPrefix(it.out, Ascending(Distinct(last.arg)))
        /\ it.pc = "done" => it.out = Ascending(Distinct(last.arg))

\* C2: iterating any reachable set neither fails nor runs on: no panic, and
\* never more items than the set has bits.
C2_IterTotalFinite ==
    it.pc # "idle" =>
        /\ it.pc # "panicked"
        /\ Len(it.out) + it.count <= SetBits(groups.layers)

\* C3: num_layers of from_layers(L) is the number of distinct elements of L:
\* the count does not fail, never passes that number, and ends equal to it.
C3_CountDistinct ==
    (last.op = "from_layers" /\ it.call = "num_layers") =>
        /\ it.pc # "panicked"
        /\ it.count <= Cardinality(Distinct(last.arg))
        /\ it.pc = "done" => it.count = Cardinality(Distinct(last.arg))

\* C4: two sets that contain the same layers compare equal with ==.
C4_EqualityByContent ==
    Contained(groups.layers) = Contained(other.layers) =>
        RenderXXLayersXX_eq(groups.layers, other.layers)

\* C5: entity_is_visible is TRUE when the groups' camera is the viewer, and
\* otherwise is TRUE exactly when the view and the groups share a layer.
C5_SeesTwoTier ==
    last.op = "entity_is_visible" =>
        last.ret = IF groups.camera # None /\ groups.camera = last.arg[1]
                   THEN TRUE
                   ELSE Contained(view.layers) \cap Contained(groups.layers) # {}

C5_Witness ==
    /\ last.op = "entity_is_visible"
    /\ groups.camera = last.arg[1]
    /\ Contained(view.layers) = {} /\ Contained(groups.layers) = {}
    /\ last.ret = TRUE

\* C6: RenderGroups::intersects is TRUE exactly when both sides have a camera
\* and the two are equal, or the two layer sets share a layer.
C6_GroupsIntersectsIff ==
    last.op = "RenderGroups::intersects" =>
        last.ret = (\/ groups.camera # None /\ other.camera # None
                       /\ groups.camera = other.camera
                    \/ Contained(groups.layers) \cap Contained(other.layers) # {})

C6_Witness ==
    /\ last.op = "RenderGroups::intersects"
    /\ groups.camera = None /\ other.camera = None
    /\ Contained(groups.layers) \cap Contained(other.layers) = {}
    /\ last.ret = FALSE

C8_MergeAsDocumented ==
    [][IsCall("RenderGroups::merge") =>
        groups'.camera = IF groups.camera # None /\ other.camera # None
                         THEN groups.camera
                         ELSE other.camera]_vars

\* C9: after merge, self contains every layer self or other contained before.
C9_MergeSuperset ==
    [][IsCall("RenderGroups::merge") =>
        Contained(groups.layers) \cup Contained(other.layers)
            \subseteq Contained(groups'.layers)]_vars

\* self is longer than other after the merge, so it was before it
C9_Witness ==
    /\ last.op = "RenderGroups::merge"
    /\ Len(groups.layers) > Len(other.layers)
    /\ Contained(other.layers) # {}
    /\ Contained(groups.layers) # Contained(other.layers)

\* C10: RenderXXLayersXX::intersects is TRUE exactly when some layer is
\* contained in both sets, whatever the two backing lengths.
C10_LayersIntersectsIff ==
    /\ last.op = "RenderXXLayersXX::intersects" =>
        last.ret = (Contained(groups.layers) \cap Contained(other.layers) # {})
    /\ ~RenderXXLayersXX_intersects(RenderXXLayersXX_empty, RenderXXLayersXX_empty)
    /\ RenderXXLayersXX_intersects(RenderXXLayersXX_default, RenderXXLayersXX_default)

C10_Witness ==
    /\ last.op = "RenderXXLayersXX::intersects"
    /\ Len(groups.layers) # Len(other.layers)
    /\ last.ret = TRUE

\* C11: RenderXXLayersXX::intersects gives the same answer with its two
\* arguments swapped, whatever the two backing lengths.
C11_IntersectsSymmetric ==
    last.op = "RenderXXLayersXX::intersects" =>
        last.ret = RenderXXLayersXX_intersects(other.layers, groups.layers)

C11_Witness ==
    /\ last.op = "RenderXXLayersXX::intersects"
    /\ Len(groups.layers) > Len(other.layers)
    /\ groups.layers[Len(groups.layers)] # {}
    /\ last.ret = FALSE
    /\ ~RenderXXLayersXX_intersects(other.layers, groups.layers)

\* C12: right after add(x) the set contains x, whatever it held before, and
\* right after remove(x) it does not contain x.
C12_AddRemoveContains ==
    [][/\ IsCall("RenderGroups::add") =>
              RenderGroups_contains_layer(groups', last'.arg[1])
       /\ IsCall("RenderGroups::remove") =>
              ~RenderGroups_contains_layer(groups', last'.arg[1])]_vars

\* remove(64) on a two-word set that still holds another layer
C12_Witness ==
    /\ last.op = "RenderGroups::remove"
    /\ last.arg = <<WordBits>>
    /\ Len(groups.layers) = 2
    /\ ~RenderGroups_contains_layer(groups, WordBits)
    /\ RenderGroups_contains_layer(groups, WordBits - 1)

\* The value of a word given as its set of bit positions.
RECURSIVE WordValue(_)
WordValue(word) ==
    IF word = {} THEN 0
    ELSE LET b == CHOOSE c \in word : TRUE
         IN 2^b + WordValue(word \ {b})

\* C14: in the words bits() returns, bit b of word i is set exactly when layer
\* 64*i + b is contained, and no word has a bit outside 0..63; from(0) then
\* add(1) has first word 3, and remove(0) after that leaves 2.  The words are
\* read between calls, with no iterator alive.
C14_BitsRepresentation ==
    /\ it.pc = "idle" =>
           /\ \A i \in 1..Len(bits(groups.layers)) :
                  bits(groups.layers)[i] \subseteq 0..63
           /\ \A x \in AllLayers :
                  RenderXXLayersXX_contains(groups.layers, x) <=>
                      /\ x \div 64 < Len(bits(groups.layers))
                      /\ (x % 64) \in bits(groups.layers)[(x \div 64) + 1]
    /\ LET a == RenderXXLayersXX_add(RenderXXLayersXX_from(0), 1)
       IN /\ WordValue(bits(a)[1]) = 3
          /\ WordValue(bits(RenderXXLayersXX_remove(a, 0))[1]) = 2

\* the set of the example, after its remove(0)
C14_Witness ==
    /\ last.op = "RenderGroups::remove"
    /\ last.arg = <<0>>
    /\ Len(bits(groups.layers)) = 1
    /\ bits(groups.layers)[1] \subseteq 0..1
    /\ WordValue(bits(groups.layers)[1]) = 2

\* C15: remove(layer) keeps the backing length: with the layer's word index at
\* or past the length nothing changes, otherwise only that bit of that word is
\* cleared; the camera is left alone.
C15_RemoveFrame ==
    [][IsCall("RenderGroups::remove") =>
           LET l == last'.arg[1]
               w == (l \div 64) + 1
           IN /\ groups'.camera = groups.camera
              /\ Len(groups'.layers) = Len(groups.layers)
              /\ \A i \in 1..Len(groups.layers) :
                     groups'.layers[i] =
                         IF i = w THEN groups.layers[i] \ {l % 64}
                         ELSE groups.layers[i]]_vars

\* a remove that emptied the last word and left it in place
C15_Witness ==
    /\ last.op = "RenderGroups::remove"
    /\ last.arg = <<WordBits>>
    /\ Len(groups.layers) = 2
    /\ groups.layers[2] = {}
    /\ groups.layers[1] # {}

\* C16: after RenderGroups::clear() no layer is contained and there is no
\* camera, so no view sees the cleared value from any camera.
C16_ClearResets ==
    (last.op = "RenderGroups::clear" /\ it.pc = "idle") =>
        /\ \A x \in AllLayers : ~RenderGroups_contains_layer(groups, x)
        /\ groups.camera = None
        /\ \A v \in InputViews, c \in Entity : ~entity_is_visible(v, c, groups)

C16_Witness ==
    /\ last.op = "RenderGroups::clear"
    /\ groups = RenderGroups_empty
    /\ other.camera # None
    /\ \E v \in InputViews : entity_is_visible(v, other.camera, other)

\* C13: intersects_extracted with an absent argument answers as intersects
\* against the default RenderGroups (layer 0 alone, no camera): true exactly
\* when the receiver contains layer 0, so true for a default receiver and
\* never the answer an empty argument would give to a receiver holding layer 0.
C13_AbsentIsDefault ==
    (last.op = "intersects_extracted" /\ last.arg = <<0>>) =>
        /\ last.ret = RenderGroups_contains_layer(groups, 0)
        /\ last.ret = RenderGroups_intersects(groups, [layers |-> <<{0}>>, camera |-> None])
        /\ groups.layers = RenderGroups_default.layers => last.ret = TRUE

\* a default-layered receiver resolved against an absent argument
C13_Witness ==
    /\ last.op = "intersects_extracted"
    /\ last.arg = <<0>>
    /\ groups.layers = RenderGroups_default.layers
    /\ last.ret = TRUE

\* C20: entity_is_visible(view, camera, groups) is RenderGroups::intersects of
\* get_groups(view, camera) with groups.
C20_SeesIsIntersectsOfGetGroups ==
    last.op = "entity_is_visible" =>
        last.ret = RenderGroups_intersects(get_groups(view, last.arg[1]), groups)

\* seen through the camera alone, by a view that has layers of its own
C20_Witness ==
    /\ last.op = "entity_is_visible"
    /\ last.ret = TRUE
    /\ groups.camera = last.arg[1]
    /\ view.layers # <<>>
    /\ Len(groups.layers) = 2
    /\ ~RenderXXLayersXX_intersects(view.layers, groups.layers)

\* C17: get_groups(view, camera) returns a RenderGroups whose words are the
\* view's words and whose camera is `camera`; the view is unchanged by the
\* call and by later add / remove calls on the result.
C17_GetGroupsCopies ==
    [][/\ IsCall("CameraView::get_groups") =>
              /\ bits(other'.layers) = bits(view.layers)
              /\ other'.camera = last'.arg[1]
              /\ other'.camera \in Entity
              /\ view' = view
       /\ (IsCall("other::add") \/ IsCall("other::remove")) => view' = view]_vars

\* a result of get_groups (it has a camera) that was mutated away from a
\* two-word view
C17_Witness ==
    /\ last.op = "other::add"
    /\ other.camera # None
    /\ Len(view.layers) = 2
    /\ view.layers[2] # {}
    /\ Contained(other.layers) # Contained(view.layers)

\* C18: the default RenderXXLayersXX, RenderGroups and CameraView contain layer
\* 0 and no other layer, num_layers of the default is 1, and the default
\* RenderGroups has no camera; the empty() values contain no layer and the
\* empty RenderGroups has no camera.
C18_Defaults ==
    /\ (last.op = "new" /\ it.pc = "idle") =>
           /\ groups = RenderGroups_default /\ view = CameraView_default
           /\ Contained(groups.layers) = {0} /\ groups.camera = None
           /\ Contained(view.layers) = {0}
           /\ Contained(RenderXXLayersXX_default) = {0}
           /\ Contained(RenderXXLayersXX_empty) = {}
           /\ Contained(RenderGroups_empty.layers) = {}
           /\ RenderGroups_empty.camera = None
           /\ Contained(CameraView_empty.layers) = {}
    /\ (last.op = "new" /\ it.call = "num_layers") =>
           /\ it.pc # "panicked"
           /\ it.count <= 1
           /\ it.pc = "done" => it.count = 1

\* num_layers() of the default has returned
C18_Witness ==
    /\ last.op = "new"
    /\ groups = RenderGroups_default
    /\ it.call = "num_layers" /\ it.pc = "done" /\ it.count = 1

\* A buffer of minimal length: empty, or ending in a non-zero word.
Minimal(layers) == Len(layers) = 0 \/ layers[Len(layers)] # {}

\* C19 as stated: from_layers and merge always leave a buffer of minimal
\* length, also when an operand of merge carries trailing zero words.
C19_AlwaysMinimal ==
    /\ last.op = "from_layers" => Minimal(groups.layers)
    /\ last.op = "RenderGroups::merge" => Minimal(groups.layers)

\* C19 amended: from_layers leaves a buffer of minimal length; merge leaves a
\* buffer as long as the longer operand, which is of minimal length whenever
\* both operands were.
C19_MinimalFromMinimal ==
    /\ [](last.op = "from_layers" => Minimal(groups.layers))
    /\ [][IsCall("RenderGroups::merge") =>
              /\ Len(groups'.layers) = Max(Len(groups.layers), Len(other.layers))
              /\ (Minimal(groups.layers) /\ Minimal(other.layers)) =>
                     Minimal(groups'.layers)]_vars

\* a merge of two minimal operands, the receiver the longer one
C19_Witness ==
    /\ last.op = "RenderGroups::merge"
    /\ Minimal(groups.layers) /\ Minimal(other.layers)
    /\ Len(groups.layers) = 2 /\ Len(other.layers) = 1

====
